---- MODULE Spec2Model ----
(***************************************************************************)
(* cargo-vendor, src/registry.rs: vendoring a resolved package set into a  *)
(* local registry (download tree, sharded index, one git commit).          *)
(*                                                                         *)
(* One run of vendor() is modelled step by step: every try! of vendor,     *)
(* vendor_package and commit_index is a place where the run can return     *)
(* early, and the files on disk between two steps are what an observer of  *)
(* an aborted run finds.  Paths, messages, JSON text and digests are       *)
(* strings; a package name is sliced the way the code slices it.           *)
(***************************************************************************)
EXTENDS Integers, Sequences, FiniteSets, TLC

\* ------------------------------------------------------------------ bounds

\* Longest input package list of a run.
MaxPkgs == 3

\* Longest package name of the sharding specification.
MaxNameLen == 5

\* ------------------------------------------------------------------ inputs

NoFile == "<no file>"

\* The one registry source every package id of the set carries.
RegistryUrl == "https://github.com/rust-lang/crates.io-index"
RegistryHost == "github.com"
RegistryShortHash == "1ecc6299db9ec823"
RegistryCachePath == "/home/user/.cargo/registry/cache"

\* Package ids the resolver can hand over (name, version; one source).
Packages ==
    { [name |-> "a",     vers |-> "0.1.0"],
      [name |-> "abc",   vers |-> "0.3.1"],
      [name |-> "serde", vers |-> "1.0.0"],
      [name |-> "serde", vers |-> "2.0.0"] }

\* Bytes of the .crate archive the registry serves for a package.
Archive(p) ==
    CASE p.name = "a"     -> "abc"
      [] p.name = "abc"   -> ""
      [] p.vers = "1.0.0" -> "abcdbcdecdefdefgefghfghighijhijkijkljklmklmnlmnomnopnopq"
      [] OTHER            -> "abc"

\* What a damaged copy of an archive holds instead.
Damaged(bytes) == IF bytes = "" THEN "abc" ELSE ""

\* Dependencies and features of a package's manifest (Kind as in cargo).
Dependencies(p) ==
    IF p.name = "serde"
    THEN << [name |-> "abc", req |-> "^0.3", features |-> <<>>, optional |-> FALSE,
             default_features |-> TRUE, target |-> NoFile, kind |-> "Development"] >>
    ELSE << >>

Features(p) == IF p.name = "serde" THEN [std |-> <<>>] ELSE << >>

\* Sequences without repetition over S, of length at most n.
DistinctSeqs(S, n) ==
    { s \in UNION { [1..k -> S] : k \in 0..n } :
        \A j, k \in 1..Len(s) : j # k => s[j] # s[k] }

\* Strings over an alphabet, of length 1..n.
RECURSIVE StringsUpTo(_, _)
StringsUpTo(alphabet, n) ==
    IF n = 0 THEN { "" }
    ELSE LET shorter == StringsUpTo(alphabet, n - 1)
         IN  shorter \cup { s \o ch : s \in { t \in shorter : Len(t) = n - 1 },
                                      ch \in alphabet }

NameAlphabet == { "a", "b", "-" }

ShardNames == StringsUpTo(NameAlphabet, MaxNameLen) \ { "" }

\* ------------------------------------------------------------------ strings and paths

Contains(s, t) ==
    \E k \in 1..(Len(s) - Len(t) + 1) : SubSeq(s, k, k + Len(t) - 1) = t

\* Path::join of a relative component.
Join(dir, component) == dir \o "/" \o component

IsAbsolute(path) == Len(path) > 0 /\ SubSeq(path, 1, 1) = "/"

\* Url::from_file_path: Err(()) unless the path is absolute.
UrlFromFilePath(path) == IF IsAbsolute(path) THEN "file://" \o path ELSE NoFile

\* Display of a PackageId.
PackageIdStr(p) == p.name \o " v" \o p.vers \o " (registry " \o RegistryUrl \o ")"

\* ------------------------------------------------------------------ digest

\* SHA-256 of the archives of the model (FIPS 180 test vectors), as bytes.
Sha256(bytes) ==
    CASE bytes = "" ->
           << 227, 176, 196, 66, 152, 252, 28, 20, 154, 251, 244, 200, 153, 111,
              185, 36, 39, 174, 65, 228, 100, 155, 147, 76, 164, 149, 153, 27,
              120, 82, 184, 85 >>
      [] bytes = "abc" ->
           << 186, 120, 22, 191, 143, 1, 207, 234, 65, 65, 64, 222, 93, 174, 34,
              35, 176, 3, 97, 163, 150, 23, 122, 156, 180, 16, 255, 97, 242, 0,
              21, 173 >>
      [] bytes = "abcdbcdecdefdefgefghfghighijhijkijkljklmklmnlmnomnopnopq" ->
           << 36, 141, 106, 97, 210, 6, 56, 184, 229, 192, 38, 147, 12, 62, 96,
              57, 163, 60, 228, 89, 100, 255, 33, 103, 246, 236, 237, 212, 25,
              219, 6, 193 >>

HexUpper(byte) ==
    SubSeq("0123456789ABCDEF", (byte \div 16) + 1, (byte \div 16) + 1)
        \o SubSeq("0123456789ABCDEF", (byte % 16) + 1, (byte % 16) + 1)

\* Two lower-case hex digits of one byte.
HexByte(byte) ==
    SubSeq("0123456789abcdef", (byte \div 16) + 1, (byte \div 16) + 1)
        \o SubSeq("0123456789abcdef", (byte % 16) + 1, (byte % 16) + 1)

\* ToHex::to_hex of a byte vector.
RECURSIVE ToHex(_)
ToHex(digest) ==
    IF digest = << >> THEN "" ELSE HexByte(Head(digest)) \o ToHex(Tail(digest))

\* ------------------------------------------------------------------ vendor_package, pure parts

\* The cached archive of a package: <cache>/<host>-<hash>/<name>-<version>.crate
CrateFile(p) ==
    Join(Join(RegistryCachePath, RegistryHost \o "-" \o RegistryShortHash),
         p.name \o "-" \o p.vers \o ".crate")

\* dst.parent(): <download>/<name>/<version>
DownloadDir(download, p) == Join(Join(download, p.name), p.vers)

DownloadFileFlat(download, p) ==
    Join(Join(download, p.name \o "-" \o p.vers), "download")

\* Where the archive is copied to: <download>/<name>/<version>/download
DownloadFile(download, p) == Join(DownloadDir(download, p), "download")

ReadBackCached(copied, cached) == cached

\* The bytes that are hashed: those read back from the copy, not the cache file.
ReadBack(copied, cached) == copied

KindStr(kind) ==
    CASE kind = "Normal"      -> "normal"
      [] kind = "Build"       -> "build"
      [] kind = "Development" -> "dev"

\* The RegistryPackage built for a package whose copied archive holds c.
RegistryPackage(p, c) ==
    [ name     |-> p.name,
      vers     |-> p.vers,
      deps     |-> [ k \in DOMAIN Dependencies(p) |->
                       [ name             |-> Dependencies(p)[k].name,
                         req              |-> Dependencies(p)[k].req,
                         features         |-> Dependencies(p)[k].features,
                         optional         |-> Dependencies(p)[k].optional,
                         default_features |-> Dependencies(p)[k].default_features,
                         target           |-> Dependencies(p)[k].target,
                         kind             |-> KindStr(Dependencies(p)[k].kind) ] ],
      features |-> Features(p),
      cksum    |-> ToHex(Sha256(c)),
      yanked   |-> FALSE ]

\* json::encode, fields in declaration order.
JsonString(s) == "\"" \o s \o "\""

JsonBool(b) == IF b THEN "true" ELSE "false"

RECURSIVE JsonList(_)
JsonList(items) ==
    IF items = << >> THEN ""
    ELSE IF Len(items) = 1 THEN Head(items)
    ELSE Head(items) \o "," \o JsonList(Tail(items))

JsonStrings(strs) == "[" \o JsonList([ k \in DOMAIN strs |-> JsonString(strs[k]) ]) \o "]"

JsonDependency(d) ==
    "{\"name\":" \o JsonString(d.name)
      \o ",\"req\":" \o JsonString(d.req)
      \o ",\"features\":" \o JsonStrings(d.features)
      \o ",\"optional\":" \o JsonBool(d.optional)
      \o ",\"default_features\":" \o JsonBool(d.default_features)
      \o ",\"target\":" \o (IF d.target = NoFile THEN "null" ELSE JsonString(d.target))
      \o ",\"kind\":" \o JsonString(d.kind) \o "}"

JsonFeatures(features) ==
    IF DOMAIN features = { } THEN "{}"
    ELSE "{\"std\":" \o JsonStrings(features.std) \o "}"

JsonEncode(package) ==
    "{\"name\":" \o JsonString(package.name)
      \o ",\"vers\":" \o JsonString(package.vers)
      \o ",\"deps\":[" \o JsonList([ k \in DOMAIN package.deps |->
                                       JsonDependency(package.deps[k]) ]) \o "]"
      \o ",\"features\":" \o JsonFeatures(package.features)
      \o ",\"cksum\":" \o JsonString(package.cksum)
      \o ",\"yanked\":" \o JsonBool(package.yanked) \o "}"

\* The same match with the second shard of a long name taken one character early.
IndexFileOffByOne(index, name) ==
    CASE Len(name) = 1 -> Join(Join(index, "1"), name)
      [] Len(name) = 2 -> Join(Join(index, "2"), name)
      [] Len(name) = 3 -> Join(Join(Join(index, "3"), SubSeq(name, 1, 1)), name)
      [] OTHER         -> Join(Join(Join(index, SubSeq(name, 1, 2)),
                                    SubSeq(name, 2, 3)), name)

\* The index file of a package name (the match on name.len()).
IndexFile(index, name) ==
    CASE Len(name) = 1 -> Join(Join(index, "1"), name)
      [] Len(name) = 2 -> Join(Join(index, "2"), name)
      [] Len(name) = 3 -> Join(Join(Join(index, "3"), SubSeq(name, 1, 1)), name)
      [] OTHER         -> Join(Join(Join(index, SubSeq(name, 1, 2)),
                                    SubSeq(name, 3, 4)), name)

\* dst.parent()
Parent(index, name) ==
    CASE Len(name) = 1 -> Join(index, "1")
      [] Len(name) = 2 -> Join(index, "2")
      [] Len(name) = 3 -> Join(Join(index, "3"), SubSeq(name, 1, 1))
      [] OTHER         -> Join(Join(index, SubSeq(name, 1, 2)), SubSeq(name, 3, 4))

OverwriteLine(lines, line) == << line >>

\* OpenOptions::new().create(true).append(true), then write!(f, "{}\n", json)
AppendLine(lines, line) == Append(lines, line \o "\n")

ConfigJsonNewline(dl_url) == "{\"dl\": \"" \o dl_url \o "\", \"api\": \"\"}\n"

\* format!(r#"{{"dl":"{}","api":""}}"#, dl_url)
ConfigJson(dl_url) == "{\"dl\":\"" \o dl_url \o "\",\"api\":\"\"}"

\* ------------------------------------------------------------------ errors

IoNotFound == "No such file or directory (os error 2)"
IoExists == "File exists (os error 17)"
IoOther == "Permission denied (os error 13)"

\* A CargoResult: Ok(()), or an error with its chain of messages, outermost
\* first.  stage is the step of the run that returned; fault says that the
\* operating system or git refused an operation that could have worked.
Running == [ ok |-> FALSE, chain |-> << >>, stage |-> "", fault |-> FALSE ]

Ok == [ ok |-> TRUE, chain |-> << >>, stage |-> "report", fault |-> FALSE ]

Err(stage, chain, fault) == [ ok |-> FALSE, chain |-> chain, stage |-> stage, fault |-> fault ]

ChainVendorNone(p, chain) == chain

ChainVendorNameOnly(p, chain) == << "failed to vendor '" \o p.name \o "'" >> \o chain

\* .chain_error(|| human(format!("failed to vendor '{}'", package.package_id())))
\* (the code quotes with backticks, which a TLA+ string cannot hold)
ChainVendor(p, chain) == << "failed to vendor '" \o PackageIdStr(p) \o "'" >> \o chain

\* .chain_error(|| human(format!("cached crate file '{}' doesn't exist for '{}'", ..)))
ChainCopy(p, chain) ==
    << "cached crate file '" \o CrateFile(p) \o "' doesn't exist for '"
         \o PackageIdStr(p) \o "'" >> \o chain

\* .chain_error(|| human("failed to commit the index"))
ChainCommit(chain) == << "failed to commit the index" >> \o chain

CreateDirAll(parentExists, exists) == "ok"

\* fs::create_dir: the parent must exist and the directory must not.
CreateDir(parentExists, exists) ==
    IF ~parentExists THEN IoNotFound
    ELSE IF exists THEN IoExists
    ELSE "ok"

CommitOnHead(tree) == [ parents |-> << "HEAD" >>, tree |-> tree, message |-> "Initial commit" ]

\* repo.commit(Some("HEAD"), &sig, &sig, "Initial commit", &tree, &[])
InitialCommit(tree) == [ parents |-> << >>, tree |-> tree, message |-> "Initial commit" ]

\* ------------------------------------------------------------------ state

VARIABLES
    into,       \* the destination root handed to vendor
    pkgs,       \* packages.package_ids(), in order
    crates,     \* cargo's registry cache: crate file path -> bytes
    dest0,      \* what the destination held before the run
    cacheDir,   \* <into>/cache exists
    dlDirs,     \* directories <into>/cache/<name>/<version>
    dl,         \* download files: path -> bytes
    indexDir,   \* <into>/index exists
    idxDirs,    \* shard directories under <into>/index
    config,     \* content of <into>/index/config.json, or NoFile
    idx,        \* index files: path -> lines
    repo,       \* the git repository at <into>/index
    pc,         \* the step the run is at
    i,          \* position in pkgs of the package being vendored
    json,       \* vendor_package's encoded record
    result      \* what vendor returned

vars == << into, pkgs, crates, dest0, cacheDir, dlDirs, dl, indexDir, idxDirs,
           config, idx, repo, pc, i, json, result >>

EmptyFiles == [ f \in { } |-> NoFile ]

Put(files, path, content) ==
    [ f \in DOMAIN files \cup { path } |-> IF f = path THEN content ELSE files[f] ]

Range(s) == { s[k] : k \in DOMAIN s }

Index == Join(into, "index")

Download == Join(into, "cache")

ConfigFile == Join(Index, "config.json")

\* ------------------------------------------------------------------ the destination before the run

Destinations ==
    { [ root |-> FALSE, cache |-> FALSE, index |-> "absent" ] }
      \cup [ root : { TRUE }, cache : BOOLEAN,
             index : { "absent", "empty", "stale", "committed" } ]

\* An index left by an earlier run (serde 1.0.0 vendored from /old).
StalePackage == [ name |-> "serde", vers |-> "1.0.0" ]

StaleConfig == ConfigJson("file:///old/cache")

StaleLine == JsonEncode(RegistryPackage(StalePackage, Archive(StalePackage))) \o "\n"

StaleFile(root) == IndexFile(Join(root, "index"), StalePackage.name)

IndexFiles0(root, d) ==
    IF d.index \in { "stale", "committed" }
    THEN [ f \in { StaleFile(root) } |-> << StaleLine >> ]
    ELSE EmptyFiles

Config0(d) == IF d.index \in { "stale", "committed" } THEN StaleConfig ELSE NoFile

IdxDirs0(root, d) ==
    IF d.index \in { "stale", "committed" }
    THEN { Parent(Join(root, "index"), StalePackage.name) }
    ELSE { }

Repo0(root, d) ==
    [ init    |-> d.index \in { "stale", "committed" },
      commits |-> IF d.index = "committed"
                  THEN << InitialCommit({ Join(Join(root, "index"), "config.json"),
                                           StaleFile(root) }) >>
                  ELSE << >> ]

Start(root, list, present, d) ==
    /\ into = root
    /\ pkgs = list
    /\ crates = [ f \in { CrateFile(p) : p \in present } |->
                    Archive(CHOOSE p \in present : CrateFile(p) = f) ]
    /\ dest0 = d
    /\ cacheDir = d.cache
    /\ dlDirs = { }
    /\ dl = EmptyFiles
    /\ indexDir = (d.index # "absent")
    /\ idxDirs = IdxDirs0(root, d)
    /\ config = Config0(d)
    /\ idx = IndexFiles0(root, d)
    /\ repo = Repo0(root, d)
    /\ pc = "start"
    /\ i = 1
    /\ json = ""
    /\ result = Running

Init ==
    \E root \in { "/reg", "reg" }, list \in DistinctSeqs(Packages, MaxPkgs),
       d \in Destinations :
        \E present \in SUBSET Range(list) : Start(root, list, present, d)

\* One package of any name, vendored into a fresh destination.
InitShard ==
    \E name \in ShardNames, cached \in BOOLEAN :
        LET p == [ name |-> name, vers |-> "1.0.0" ]
        IN  Start("/reg", << p >>, IF cached THEN { p } ELSE { },
                  [ root |-> TRUE, cache |-> FALSE, index |-> "absent" ])

\* ------------------------------------------------------------------ vendor

Return(res) == pc' = "done" /\ result' = res

\* try!(fs::create_dir(&download))
CreateCacheDir ==
    /\ pc = "start"
    /\ \E works \in BOOLEAN :
         LET r == CreateDir(dest0.root, cacheDir)
         IN  IF r # "ok"
             THEN Return(Err("start", << r >>, FALSE)) /\ UNCHANGED cacheDir
             ELSE IF works
             THEN cacheDir' = TRUE /\ pc' = "urls" /\ UNCHANGED result
             ELSE Return(Err("start", << IoOther >>, TRUE)) /\ UNCHANGED cacheDir
    /\ UNCHANGED << into, pkgs, crates, dest0, dlDirs, dl, indexDir, idxDirs,
                    config, idx, repo, i, json >>

\* Url::from_file_path of the index and of the download directory
ConvertUrls ==
    /\ pc = "urls"
    /\ IF UrlFromFilePath(Index) = NoFile
       THEN Return(Err("urls", << "failed to convert \"" \o Index \o "\" to a URL" >>, FALSE))
       ELSE IF UrlFromFilePath(Download) = NoFile
       THEN Return(Err("urls", << "failed to convert \"" \o Download \o "\" to a URL" >>, FALSE))
       ELSE pc' = "init" /\ UNCHANGED result
    /\ UNCHANGED << into, pkgs, crates, dest0, cacheDir, dlDirs, dl, indexDir,
                    idxDirs, config, idx, repo, i, json >>

\* try!(Repository::init(&index)): creates the directory if it is missing,
\* and opens what is there if it is not.
RepositoryInit ==
    /\ pc = "init"
    /\ \E works \in BOOLEAN :
         IF works
         THEN /\ indexDir' = TRUE
              /\ repo' = [ repo EXCEPT !.init = TRUE ]
              /\ pc' = "config"
              /\ UNCHANGED result
         ELSE /\ Return(Err("init", << "failed to initialize the repository" >>, TRUE))
              /\ UNCHANGED << indexDir, repo >>
    /\ UNCHANGED << into, pkgs, crates, dest0, cacheDir, dlDirs, dl, idxDirs,
                    config, idx, i, json >>

\* File::create(config.json), then one write_all of the formatted text
WriteConfig ==
    /\ pc = "config"
    /\ \E works \in BOOLEAN :
         IF works
         THEN /\ config' = ConfigJson(UrlFromFilePath(Download))
              /\ pc' = "loop"
              /\ UNCHANGED result
         ELSE /\ config' \in { config, "" }
              /\ Return(Err("config", << IoOther >>, TRUE))
    /\ UNCHANGED << into, pkgs, crates, dest0, cacheDir, dlDirs, dl, indexDir,
                    idxDirs, idx, repo, i, json >>

\* for package_id in packages.package_ids() { packages.get(&package_id) ...
NextPackage ==
    /\ pc = "loop"
    /\ IF i > Len(pkgs)
       THEN pc' = "commit" /\ UNCHANGED result
       ELSE \E works \in BOOLEAN :
              IF works
              THEN pc' = "mkdst" /\ UNCHANGED result
              ELSE Return(Err("get", << "unable to get packages from source" >>, TRUE))
    /\ UNCHANGED << into, pkgs, crates, dest0, cacheDir, dlDirs, dl, indexDir,
                    idxDirs, config, idx, repo, i, json >>

\* ------------------------------------------------------------------ vendor_package

\* fs::create_dir_all(dst.parent())
CreateDownloadDir ==
    /\ pc = "mkdst"
    /\ \E works \in BOOLEAN :
         IF works
         THEN /\ dlDirs' = dlDirs \cup { DownloadDir(Download, pkgs[i]) }
              /\ pc' = "copy"
              /\ UNCHANGED result
         ELSE /\ Return(Err("mkdst", ChainVendor(pkgs[i], << IoOther >>), TRUE))
              /\ UNCHANGED dlDirs
    /\ UNCHANGED << into, pkgs, crates, dest0, cacheDir, dl, indexDir, idxDirs,
                    config, idx, repo, i, json >>

\* fs::copy(&crate_file, &dst).chain_error(..): every failure of the copy gets
\* the same message.  A copy that reports success may still have written other
\* bytes than the cache holds; one that fails may leave a truncated file.
CopyCrate ==
    /\ pc = "copy"
    /\ LET p   == pkgs[i]
           src == CrateFile(p)
           dst == DownloadFile(Download, p)
       IN  IF src \notin DOMAIN crates
           THEN /\ Return(Err("copy", ChainVendor(p, ChainCopy(p, << IoNotFound >>)), FALSE))
                /\ UNCHANGED dl
           ELSE \E outcome \in { "copied", "damaged", "failed", "truncated" } :
                  CASE outcome = "copied" ->
                         /\ dl' = Put(dl, dst, crates[src])
                         /\ pc' = "read"
                         /\ UNCHANGED result
                    [] outcome = "damaged" ->
                         /\ dl' = Put(dl, dst, Damaged(crates[src]))
                         /\ pc' = "read"
                         /\ UNCHANGED result
                    [] outcome = "failed" ->
                         /\ Return(Err("copy", ChainVendor(p, ChainCopy(p, << IoOther >>)), TRUE))
                         /\ UNCHANGED dl
                    [] outcome = "truncated" ->
                         /\ Return(Err("copy", ChainVendor(p, ChainCopy(p, << IoOther >>)), TRUE))
                         /\ dl' = Put(dl, dst, "")
    /\ UNCHANGED << into, pkgs, crates, dest0, cacheDir, dlDirs, indexDir,
                    idxDirs, config, idx, repo, i, json >>

\* File::open(&dst), read_to_end, Sha256, RegistryPackage, json::encode
ReadAndEncode ==
    /\ pc = "read"
    /\ \E works \in BOOLEAN :
         LET p == pkgs[i]
             c == ReadBack(dl[DownloadFile(Download, p)], crates[CrateFile(p)])
         IN  IF works
             THEN /\ json' = JsonEncode(RegistryPackage(p, c))
                  /\ pc' = "mkidx"
                  /\ UNCHANGED result
             ELSE /\ Return(Err("read", ChainVendor(p, << IoOther >>), TRUE))
                  /\ UNCHANGED json
    /\ UNCHANGED << into, pkgs, crates, dest0, cacheDir, dlDirs, dl, indexDir,
                    idxDirs, config, idx, repo, i >>

\* fs::create_dir_all(dst.parent()) for the index file
CreateIndexDir ==
    /\ pc = "mkidx"
    /\ \E works \in BOOLEAN :
         IF works
         THEN /\ idxDirs' = idxDirs \cup { Parent(Index, pkgs[i].name) }
              /\ pc' = "append"
              /\ UNCHANGED result
         ELSE /\ Return(Err("mkidx", ChainVendor(pkgs[i], << IoOther >>), TRUE))
              /\ UNCHANGED idxDirs
    /\ UNCHANGED << into, pkgs, crates, dest0, cacheDir, dlDirs, dl, indexDir,
                    config, idx, repo, i, json >>

\* Open for append (creating the file) and write the line; back in vendor's loop
AppendRecord ==
    /\ pc = "append"
    /\ LET f   == IndexFile(Index, pkgs[i].name)
           old == IF f \in DOMAIN idx THEN idx[f] ELSE << >>
       IN  \E outcome \in { "written", "not opened", "not written" } :
             CASE outcome = "written" ->
                    /\ idx' = Put(idx, f, AppendLine(old, json))
                    /\ i' = i + 1
                    /\ pc' = "loop"
                    /\ UNCHANGED result
               [] outcome = "not opened" ->
                    /\ Return(Err("append", ChainVendor(pkgs[i], << IoOther >>), TRUE))
                    /\ UNCHANGED << idx, i >>
               [] outcome = "not written" ->
                    /\ Return(Err("append", ChainVendor(pkgs[i], << IoOther >>), TRUE))
                    /\ idx' = Put(idx, f, old)
                    /\ UNCHANGED i
    /\ UNCHANGED << into, pkgs, crates, dest0, cacheDir, dlDirs, dl, indexDir,
                    idxDirs, config, json, repo >>

\* ------------------------------------------------------------------ commit_index

\* index.add_all(["*"]): every file under the index root
AddAll == (IF config = NoFile THEN { } ELSE { ConfigFile }) \cup DOMAIN idx

\* commit_index(&repo).chain_error(..), then the message to the user and Ok(())
CommitIndex ==
    /\ pc = "commit"
    /\ \E works \in BOOLEAN :
         LET commit == InitialCommit(AddAll)
         IN  IF ~works
             THEN /\ Return(Err("commit", ChainCommit(<< "git error" >>), TRUE))
                  /\ UNCHANGED repo
             ELSE IF commit.parents = << >> /\ repo.commits # << >>
             THEN /\ Return(Err("commit",
                         ChainCommit(<< "failed to create commit: current tip is not the first parent" >>),
                         FALSE))
                  /\ UNCHANGED repo
             ELSE /\ repo' = [ repo EXCEPT !.commits = Append(@, commit) ]
                  /\ Return(Ok)
    /\ UNCHANGED << into, pkgs, crates, dest0, cacheDir, dlDirs, dl, indexDir,
                    idxDirs, config, idx, i, json >>

Next ==
    \/ CreateCacheDir
    \/ ConvertUrls
    \/ RepositoryInit
    \/ WriteConfig
    \/ NextPackage
    \/ CreateDownloadDir
    \/ CopyCrate
    \/ ReadAndEncode
    \/ CreateIndexDir
    \/ AppendRecord
    \/ CommitIndex

Spec == Init /\ [][Next]_vars

SpecShard == InitShard /\ [][Next]_vars

\* ------------------------------------------------------------------ what the claims speak of

Done == pc = "done"

Succeeded == pc = "done" /\ result.ok

\* A destination root that exists and holds neither cache nor index.
Fresh == dest0 = [ root |-> TRUE, cache |-> FALSE, index |-> "absent" ]

\* <root>/cache/<name>/<version>/download, spelled out.
DownloadPath(p) == into \o "/cache/" \o p.name \o "/" \o p.vers \o "/download"

\* The sharding table of the specification, below a directory.
ShardRule(dir, name) ==
    IF Len(name) = 1 THEN dir \o "/1/" \o name
    ELSE IF Len(name) = 2 THEN dir \o "/2/" \o name
    ELSE IF Len(name) = 3 THEN dir \o "/3/" \o SubSeq(name, 1, 1) \o "/" \o name
    ELSE dir \o "/" \o SubSeq(name, 1, 2) \o "/" \o SubSeq(name, 3, 4) \o "/" \o name

ShardedPath(name) == ShardRule(into \o "/index", name)

\* Lines of an index file now, before the run, and those the run added.
Lines(f) == IF f \in DOMAIN idx THEN idx[f] ELSE << >>

LinesBefore(f) ==
    IF f \in DOMAIN IndexFiles0(into, dest0) THEN IndexFiles0(into, dest0)[f] ELSE << >>

LinesAdded(f) == SubSeq(Lines(f), Len(LinesBefore(f)) + 1, Len(Lines(f)))

CommitsBefore == Repo0(into, dest0).commits

\* A line is the record of a package: it starts with its name and version.
RecordPrefix(p) == "{\"name\":\"" \o p.name \o "\",\"vers\":\"" \o p.vers \o "\","

IsRecordOf(line, p) ==
    /\ Len(line) > Len(RecordPrefix(p))
    /\ SubSeq(line, 1, Len(RecordPrefix(p))) = RecordPrefix(p)
    /\ SubSeq(line, Len(line), Len(line)) = "\n"

HasCksum(line, hex) == Contains(line, ",\"cksum\":\"" \o hex \o "\",")

\* SHA-256 in lower-case hex, as sha256sum prints it.
Sha256Hex(bytes) ==
    CASE bytes = "" ->
           "e3b0c44298fc1c149afbf4c8996fb92427ae41e4649b934ca495991b7852b855"
      [] bytes = "abc" ->
           "ba7816bf8f01cfea414140de5dae2223b00361a396177a9cb410ff61f20015ad"
      [] bytes = "abcdbcdecdefdefgefghfghighijhijkijkljklmklmnlmnomnopnopq" ->
           "248d6a61d20638b8e5c026930c3e6039a33ce45964ff2167f6ecedd419db06c1"

\* The record line the run wrote for the k-th input package, if any.
RecordsAdded(k) ==
    { n \in 1..Len(LinesAdded(ShardedPath(pkgs[k].name))) :
        IsRecordOf(LinesAdded(ShardedPath(pkgs[k].name))[n], pkgs[k]) }

Vendored(k) == DownloadPath(pkgs[k]) \in DOMAIN dl /\ Cardinality(RecordsAdded(k)) = 1

Missing(k) == CrateFile(pkgs[k]) \notin DOMAIN crates

PackageStages == { "mkdst", "copy", "read", "mkidx", "append" }

\* ------------------------------------------------------------------ claims

\* C1: after a run that succeeds, the record the run wrote for each input
\* package carries as cksum the lower-case hex SHA-256 of the bytes now at
\* <root>/cache/<name>/<version>/download, whatever the cache file holds.
C1_ChecksumOfDownload ==
    Succeeded =>
        \A k \in 1..Len(pkgs) :
            /\ DownloadPath(pkgs[k]) \in DOMAIN dl
            /\ RecordsAdded(k) # { }
            /\ \A n \in RecordsAdded(k) :
                 HasCksum(LinesAdded(ShardedPath(pkgs[k].name))[n],
                          Sha256Hex(dl[DownloadPath(pkgs[k])]))

\* C1 witness: a successful run in which a copy differs from its cache file.
C1_Witness ==
    /\ Succeeded
    /\ \E k \in 1..Len(pkgs) :
         /\ DownloadPath(pkgs[k]) \in DOMAIN dl
         /\ dl[DownloadPath(pkgs[k])] # crates[CrateFile(pkgs[k])]

\* C2 (as stated): with the cached archive of an input package absent, and
\* nothing else refusing to work, the run fails, its message names that
\* package and version, and no record at all and no commit has been produced.
C2_NoEntryAtAll ==
    (Done /\ Fresh /\ IsAbsolute(into) /\ ~result.fault
          /\ \E k \in 1..Len(pkgs) : Missing(k)) =>
        /\ ~result.ok
        /\ \E k \in 1..Len(pkgs) :
             /\ Missing(k)
             /\ Contains(result.chain[1], pkgs[k].name)
             /\ Contains(result.chain[1], pkgs[k].vers)
        /\ \A f \in DOMAIN idx : LinesAdded(f) = << >>
        /\ repo.commits = CommitsBefore

\* C2 (amended): a run over a set with an absent archive never succeeds and
\* never commits; when nothing else refuses to work it stops at the first
\* package whose archive is absent, its message names that package and
\* version, and no record of that package or of a later one has been written.
C2_MissingArchiveAborts ==
    (Done /\ \E k \in 1..Len(pkgs) : Missing(k)) =>
        /\ ~result.ok
        /\ repo.commits = CommitsBefore
        /\ (~result.fault /\ result.stage \notin { "start", "urls" }) =>
             /\ result.stage = "copy"
             /\ Missing(i)
             /\ \A k \in 1..(i - 1) : ~Missing(k)
             /\ Contains(result.chain[1], pkgs[i].name)
             /\ Contains(result.chain[1], pkgs[i].vers)
             /\ \A k \in i..Len(pkgs) : RecordsAdded(k) = { }

\* C2 witness: the run stopped at an absent archive in second position.
C2_Witness ==
    /\ Done
    /\ result.stage = "copy"
    /\ i = 2
    /\ Missing(2)
    /\ Vendored(1)

\* C3: every index file holds what it held before the run, followed by exactly
\* one record line for each input package of that name vendored so far, in
\* input order; after a successful run that is every input package.
C3_AppendOnly ==
    /\ Succeeded => i = Len(pkgs) + 1
    /\ \A f \in DOMAIN idx : \E p \in Packages \cup Range(pkgs) : f = ShardedPath(p.name)
    /\ \A name \in { p.name : p \in Packages \cup Range(pkgs) } :
         LET f      == ShardedPath(name)
             before == LinesBefore(f)
             input  == SelectSeq(SubSeq(pkgs, 1, i - 1), LAMBDA p : p.name = name)
         IN  /\ Len(Lines(f)) = Len(before) + Len(input)
             /\ SubSeq(Lines(f), 1, Len(before)) = before
             /\ \A n \in 1..Len(input) : IsRecordOf(Lines(f)[Len(before) + n], input[n])

\* C3 witness: a successful run over two versions of one name.
C3_Witness ==
    /\ Succeeded
    /\ \E j, k \in 1..Len(pkgs) : j < k /\ pkgs[j].name = pkgs[k].name
    /\ \E f \in DOMAIN idx : Len(LinesAdded(f)) = 2

\* C4: the index file of a name is the one the sharding table gives, for every
\* name, and that is where the record of a vendored package is.
C4_Sharding ==
    /\ IndexFile("index", "a") = "index/1/a"
    /\ IndexFile("index", "ab") = "index/2/ab"
    /\ IndexFile("index", "abc") = "index/3/a/abc"
    /\ IndexFile("index", "abcd") = "index/ab/cd/abcd"
    /\ IndexFile("index", "serde") = "index/se/rd/serde"
    /\ \A k \in 1..Len(pkgs) :
         /\ IndexFile("index", pkgs[k].name) = ShardRule("index", pkgs[k].name)
         /\ k < i => /\ ShardedPath(pkgs[k].name) \in DOMAIN idx
                     /\ IsRecordOf(idx[ShardedPath(pkgs[k].name)][1], pkgs[k])
    /\ i > Len(pkgs) => DOMAIN idx = { ShardedPath(pkgs[k].name) : k \in 1..Len(pkgs) }

\* C4 witness: a package with a name of four or more characters was vendored.
C4_Witness ==
    /\ Succeeded
    /\ Len(pkgs[1].name) >= 4
    /\ DOMAIN idx = { "/reg/index/" \o SubSeq(pkgs[1].name, 1, 2) \o "/"
                        \o SubSeq(pkgs[1].name, 3, 4) \o "/" \o pkgs[1].name }

\* The literal text of config.json for this destination.
ConfigText == "{\"dl\":\"file://" \o into \o "/cache\",\"api\":\"\"}"

ConfigPath == into \o "/index/config.json"

\* C5: an empty collection vendored into a fresh destination succeeds unless
\* the operating system or git refuses an operation; config.json then holds
\* exactly the template text, there is no index record file, and the
\* repository has one commit.
C5_EmptyCollection ==
    (Done /\ pkgs = << >> /\ Fresh /\ IsAbsolute(into)) =>
        /\ ~result.fault => result.ok
        /\ result.ok =>
             /\ config = ConfigText
             /\ config = "{\"dl\":\"file:///reg/cache\",\"api\":\"\"}"
             /\ DOMAIN idx = { }
             /\ dl = EmptyFiles
             /\ Len(repo.commits) = 1
             /\ repo.commits[1].tree = { ConfigPath }

\* C5 witness: the empty collection was vendored into a fresh destination.
C5_Witness == Succeeded /\ pkgs = << >> /\ Fresh

C7_NotFoundOnlyOnMiss ==
    (Done /\ result.stage = "copy") =>
        ((\E n \in 1..Len(result.chain) : Contains(result.chain[n], "doesn't exist"))
            <=> Missing(i))

\* C8: the run is at the commit step only with every input package vendored;
\* no commit exists before the run ends; a failed run adds none; a successful
\* run adds exactly one, without parent, whose tree is config.json and every
\* index record file.
C8_OneCommitAtTheEnd ==
    /\ pc = "commit" => /\ i = Len(pkgs) + 1
                        /\ \A k \in 1..Len(pkgs) : Vendored(k)
    /\ (~Done \/ ~result.ok) => repo.commits = CommitsBefore
    /\ Succeeded =>
         /\ \A k \in 1..Len(pkgs) : Vendored(k)
         /\ Len(repo.commits) = Len(CommitsBefore) + 1
         /\ SubSeq(repo.commits, 1, Len(CommitsBefore)) = CommitsBefore
         /\ repo.commits[Len(repo.commits)].parents = << >>
         /\ repo.commits[Len(repo.commits)].tree
              = { ConfigPath } \cup DOMAIN idx
         /\ \A k \in 1..Len(pkgs) :
              ShardedPath(pkgs[k].name) \in repo.commits[Len(repo.commits)].tree

\* C8 witness: a successful run over at least two packages.
C8_Witness == Succeeded /\ Len(pkgs) >= 2 /\ Len(repo.commits) = 1

\* No download directory, download file or record of the k-th package.
Untouched(k) ==
    /\ DownloadPath(pkgs[k]) \notin DOMAIN dl
    /\ (into \o "/cache/" \o pkgs[k].name \o "/" \o pkgs[k].vers) \notin dlDirs
    /\ RecordsAdded(k) = { }

\* C9: packages are vendored one at a time in input order: those before the
\* current one are complete, those after it untouched; a failure of a stage of
\* vendor_package ends the run with an error that starts "failed to vendor"
\* and names the package and version, and leaves what was produced.
C9_InOrderAbortOnFirst ==
    /\ i \in 1..(Len(pkgs) + 1)
    /\ \A k \in 1..Len(pkgs) : /\ k < i => Vendored(k)
                               /\ k > i => Untouched(k)
    /\ (Done /\ result.stage \in PackageStages) =>
         /\ ~result.ok
         /\ i <= Len(pkgs)
         /\ SubSeq(result.chain[1], 1, 16) = "failed to vendor"
         /\ Contains(result.chain[1], pkgs[i].name)
         /\ Contains(result.chain[1], pkgs[i].vers)
         /\ cacheDir /\ indexDir
         /\ config = ConfigText

\* C9 witness: the second of three packages failed, the first being vendored.
C9_Witness ==
    /\ Done
    /\ result.stage \in PackageStages
    /\ Len(pkgs) = 3
    /\ i = 2
    /\ Vendored(1)

\* C10: in every state of a run, a record line the run has added to an index
\* file is the record of an input package whose download file exists; a package
\* whose copy or read-back failed has no record, though its directory may exist.
C10_RecordImpliesDownload ==
    /\ \A f \in DOMAIN idx :
         \A n \in 1..Len(LinesAdded(f)) :
           \E k \in 1..Len(pkgs) :
             /\ IsRecordOf(LinesAdded(f)[n], pkgs[k])
             /\ DownloadPath(pkgs[k]) \in DOMAIN dl
    /\ (Done /\ result.stage \in { "copy", "read" }) => RecordsAdded(i) = { }

\* C10 witness: a copy failed with the package's directory created, after an
\* earlier package got its record.
C10_Witness ==
    /\ Done
    /\ result.stage = "copy"
    /\ i = 2
    /\ (into \o "/cache/" \o pkgs[2].name \o "/" \o pkgs[2].vers) \in dlDirs
    /\ RecordsAdded(2) = { }
    /\ RecordsAdded(1) # { }

====
